---------------------------- MODULE Spec2Model ----------------------------
(***************************************************************************)
(* A model of the PowerPoint review agent (src/pptx_agent.py): the agent   *)
(* loop run_agent, its tool registry and the six tools, over an abstract   *)
(* presentation document and an abstract language model.                   *)
(*                                                                         *)
(* Abstractions.  A text is a sequence of one-character strings.  A        *)
(* presentation is a sequence of slides, a slide a sequence of shapes, a   *)
(* shape a record of its name, its left position, whether it has a text    *)
(* frame, and its paragraphs (each a sequence of run texts).  The file     *)
(* system maps a path to the presentation stored there.  The language      *)
(* model is the environment: each call returns either a free-text reply    *)
(* or a list of tool calls, chosen nondeterministically within the bounds  *)
(* given below.  json.dumps of a tool result is kept as the result value.  *)
(***************************************************************************)
EXTENDS Integers, Sequences, FiniteSets, TLC

\* src/pptx_agent.py:32
MAX_ITERATIONS == 20

(***************************************************************************)
(* Bounds of the environment (the language model's behaviour in one run).  *)
(***************************************************************************)
\* add_correction calls the model issues in a working run
MaxProposals == 2
\* apply_all_corrections calls the model issues in a working run
MaxApplies == 2
\* tool calls in one response
MaxCallsPerResponse == 2
\* tool calls (other than mark_complete) the model issues in an idling run
MaxIdleToolCalls == 1
\* responses that propose and apply corrections in a batch run
MaxBatches == 1
\* characters of a run's text in the documents of an editing run
MaxRunLen == 2
\* add_correction calls the model issues in an editing run
MaxEdits == 2
\* slides of the documents of a reading run
MaxSlides == 3
\* extract_slide_content and analyze_alignment calls in a reading run
MaxReads == 2

(***************************************************************************)
(* Texts                                                                   *)
(***************************************************************************)
Digits == {"0", "1", "2", "3", "4", "5", "6", "7", "8", "9"}

DigitValue(ch) ==
    CASE ch = "0" -> 0 [] ch = "1" -> 1 [] ch = "2" -> 2 [] ch = "3" -> 3
      [] ch = "4" -> 4 [] ch = "5" -> 5 [] ch = "6" -> 6 [] ch = "7" -> 7
      [] ch = "8" -> 8 [] ch = "9" -> 9

RECURSIVE DecimalValue(_)
DecimalValue(s) ==
    IF s = <<>> THEN 0
    ELSE 10 * DecimalValue(SubSeq(s, 1, Len(s) - 1)) + DigitValue(s[Len(s)])

\* int(text) raises ValueError unless the text is an optional sign and digits
\* (the texts of the model hold no white space and no underscore)
IsIntLiteral(s) ==
    LET body == IF s # <<>> /\ s[1] \in {"-", "+"} THEN Tail(s) ELSE s
    IN  body # <<>> /\ \A i \in 1..Len(body) : body[i] \in Digits

ParseInt(s) ==
    IF s[1] = "-" THEN 0 - DecimalValue(Tail(s))
    ELSE IF s[1] = "+" THEN DecimalValue(Tail(s))
    ELSE DecimalValue(s)

\* old occurs in s at position i
OccursAt(s, old, i) ==
    /\ i + Len(old) - 1 <= Len(s)
    /\ \A k \in 1..Len(old) : s[i + k - 1] = old[k]

\* Python's "old in s"
Contains(s, old) == \E i \in 1..(Len(s) + 1) : OccursAt(s, old, i)

RECURSIVE ReplaceFrom(_, _, _, _)
ReplaceFrom(s, old, new, i) ==
    IF i > Len(s) THEN IF old = <<>> THEN new ELSE <<>>
    ELSE IF old = <<>> THEN new \o <<s[i]>> \o ReplaceFrom(s, old, new, i + 1)
    ELSE IF OccursAt(s, old, i) THEN new \o ReplaceFrom(s, old, new, i + Len(old))
    ELSE <<s[i]>> \o ReplaceFrom(s, old, new, i + 1)

\* Python's s.replace(old, new): every non-overlapping occurrence, left to right
StrReplace(s, old, new) == ReplaceFrom(s, old, new, 1)

RECURSIVE Concat(_)
Concat(ss) == IF ss = <<>> THEN <<>> ELSE Head(ss) \o Concat(Tail(ss))

(***************************************************************************)
(* The presentation                                                        *)
(***************************************************************************)
Shape(name, left, frame, paragraphs) ==
    [name |-> name, left |-> left, has_text_frame |-> frame,
     paragraphs |-> paragraphs]

\* the presentation under review: slide 1 holds two shapes named "Body",
\* slide 2 a title at another left position and a picture
InputDeck ==
    << << Shape("Title", 100, TRUE, << << <<"T", "e", "h">> >> >>),
          Shape("Body", 10, TRUE, << << <<"a", "b", "a">>, <<"c">> >> >>),
          Shape("Body", 20, TRUE, << << <<"b">> >>, << <<"a">> >> >>) >>,
       << Shape("Title", 250, TRUE, << << <<"a">> >> >>),
          Shape("Picture", 30, FALSE, <<>>) >> >>

\* what a path of the file system holds
File(prs) == [state |-> "saved", prs |-> prs]
NoFile == [state |-> "missing", prs |-> <<>>]
PartialFile == [state |-> "partial", prs |-> <<>>]

\* main: the corrected copy goes beside the input, under another name
presentation_path == "deck.pptx"
output_path == "deck_corrected.pptx"
Paths == {presentation_path, output_path}

(***************************************************************************)
(* Corrections                                                             *)
(***************************************************************************)
Correction(slide_number, shape_name, original_text, corrected_text, correction_type, reasoning) ==
    [slide_number |-> slide_number, shape_name |-> shape_name,
     original_text |-> original_text, corrected_text |-> corrected_text,
     correction_type |-> correction_type, reasoning |-> reasoning]

(***************************************************************************)
(* tool_apply_all_corrections: the pass over the pending corrections       *)
(***************************************************************************)
\* the shape at position i of the slide is one the correction is applied to
FirstMatchOnly(slide, i, c) ==
    /\ slide[i].name = c.shape_name
    /\ \A j \in 1..(i - 1) : slide[j].name # c.shape_name

MatchesShape(slide, i, c) == slide[i].name = c.shape_name

\* the first position at which old occurs in s
FirstAt(s, old) ==
    CHOOSE i \in 1..(Len(s) + 1) :
        OccursAt(s, old, i) /\ \A j \in 1..(i - 1) : ~ OccursAt(s, old, j)

ReplaceFirstOnly(text, c) ==
    IF Contains(text, c.original_text)
    THEN LET i == FirstAt(text, c.original_text)
         IN  SubSeq(text, 1, i - 1) \o c.corrected_text
               \o SubSeq(text, i + Len(c.original_text), Len(text))
    ELSE text

\* if correction.original_text in run.text: run.text = run.text.replace(...)
ApplyToRun(text, c) ==
    IF Contains(text, c.original_text)
    THEN StrReplace(text, c.original_text, c.corrected_text)
    ELSE text

AlignOrReset(shape, c) ==
    IF c.correction_type = "alignment"
    THEN [shape EXCEPT !.left = IF IsIntLiteral(c.corrected_text)
                                THEN ParseInt(c.corrected_text) ELSE 0]
    ELSE IF shape.has_text_frame
    THEN [shape EXCEPT !.paragraphs =
            [p \in 1..Len(shape.paragraphs) |->
                [r \in 1..Len(shape.paragraphs[p]) |->
                    ApplyToRun(shape.paragraphs[p][r], c)]]]
    ELSE shape

\* the body of "if shape.name == correction.shape_name"
ApplyToShape(shape, c) ==
    IF c.correction_type = "alignment"
    THEN IF IsIntLiteral(c.corrected_text)
         THEN [shape EXCEPT !.left = ParseInt(c.corrected_text)]
         ELSE shape
    ELSE IF shape.has_text_frame
    THEN [shape EXCEPT !.paragraphs =
            [p \in 1..Len(shape.paragraphs) |->
                [r \in 1..Len(shape.paragraphs[p]) |->
                    ApplyToRun(shape.paragraphs[p][r], c)]]]
    ELSE shape

\* the entries the pass appends to its local list "applied" for one shape
ShapeDetails(shape, c) ==
    IF c.correction_type = "alignment"
    THEN IF IsIntLiteral(c.corrected_text)
         THEN << [slide |-> c.slide_number, type |-> "alignment",
                  shape |-> c.shape_name] >>
         ELSE <<>>
    ELSE IF shape.has_text_frame
    THEN Concat([p \in 1..Len(shape.paragraphs) |->
            Concat([r \in 1..Len(shape.paragraphs[p]) |->
                IF Contains(shape.paragraphs[p][r], c.original_text)
                THEN << [slide |-> c.slide_number, type |-> c.correction_type,
                         original |-> c.original_text,
                         corrected |-> c.corrected_text] >>
                ELSE <<>>])])
    ELSE <<>>

SlideInRange(prs, c) ==
    ~ (c.slide_number - 1 < 0 \/ c.slide_number - 1 >= Len(prs))

ApplyToSlide(slide, c) ==
    [i \in 1..Len(slide) |->
        IF MatchesShape(slide, i, c) THEN ApplyToShape(slide[i], c) ELSE slide[i]]

SlideDetails(slide, c) ==
    Concat([i \in 1..Len(slide) |->
        IF MatchesShape(slide, i, c) THEN ShapeDetails(slide[i], c) ELSE <<>>])

ApplyCorrection(prs, c) ==
    IF SlideInRange(prs, c)
    THEN [prs EXCEPT ![c.slide_number] = ApplyToSlide(prs[c.slide_number], c)]
    ELSE prs

CorrectionDetails(prs, c) ==
    IF SlideInRange(prs, c) THEN SlideDetails(prs[c.slide_number], c) ELSE <<>>

RECURSIVE ApplyUntilSkipped(_, _)
ApplyUntilSkipped(prs, pending) ==
    IF pending = <<>> \/ ~ SlideInRange(prs, Head(pending))
    THEN [prs |-> prs, applied |-> <<>>]
    ELSE LET rest == ApplyUntilSkipped(ApplyCorrection(prs, Head(pending)),
                                       Tail(pending))
         IN  [prs |-> rest.prs,
              applied |-> CorrectionDetails(prs, Head(pending)) \o rest.applied]

\* the loop over state.pending_corrections: the presentation it leaves and
\* the list "applied" it builds
RECURSIVE ApplyPending(_, _)
ApplyPending(prs, pending) ==
    IF pending = <<>> THEN [prs |-> prs, applied |-> <<>>]
    ELSE LET rest == ApplyPending(ApplyCorrection(prs, Head(pending)), Tail(pending))
         IN  [prs |-> rest.prs,
              applied |-> CorrectionDetails(prs, Head(pending)) \o rest.applied]

(***************************************************************************)
(* The state of a run: the fields of AgentState, the file system, and the  *)
(* position of run_agent                                                   *)
(***************************************************************************)
VARIABLES
    slides_content,         \* state.slides_content
    pending_corrections,    \* state.pending_corrections
    applied_corrections,    \* state.applied_corrections
    iteration,              \* state.iteration
    is_complete,            \* state.is_complete
    messages,               \* state.messages, the transcript
    files,                  \* path -> what is stored there
    pc,                     \* "loop" | "tools" | "done" | "raised"
    tool_calls,             \* the tool calls of the response still to execute
    raised,                 \* the exception that left run_agent, or "none"
    summary                 \* what run_agent returned, or NoSummary

vars == << slides_content, pending_corrections, applied_corrections,
           iteration, is_complete, messages, files, pc, tool_calls, raised,
           summary >>

NoSummary == [returned |-> FALSE]

\* the part of the state a tool reads and writes, with its result
ToolState ==
    [slides_content |-> slides_content,
     pending_corrections |-> pending_corrections,
     applied_corrections |-> applied_corrections,
     is_complete |-> is_complete,
     files |-> files,
     result |-> [none |-> TRUE],
     raised |-> "none"]

(***************************************************************************)
(* tool_extract_slide_content                                              *)
(***************************************************************************)
\* no text of the model is white space only: text.strip() is empty iff text is
NonBlank(text) == text # <<>>

ParagraphInfo(para) ==
    [text |-> Concat(para), runs |-> SelectSeq(para, NonBlank)]

ParagraphHasText(para) == NonBlank(Concat(para))

ShapeInfo(shape) ==
    [name |-> shape.name, left |-> shape.left,
     text_content |->
        IF shape.has_text_frame
        THEN [i \in 1..Len(SelectSeq(shape.paragraphs, ParagraphHasText)) |->
                ParagraphInfo(SelectSeq(shape.paragraphs, ParagraphHasText)[i])]
        ELSE <<>>]

HasContent(info) == info.text_content # <<>>

SlideData(prs, n) ==
    [slide_number |-> n,
     shapes |-> SelectSeq([i \in 1..Len(prs[n]) |-> ShapeInfo(prs[n][i])], HasContent),
     notes |-> ""]

ExtractSlides(prs) == [n \in 1..Len(prs) |-> SlideData(prs, n)]

\* Reading the document either goes through (0) or raises while slide
\* number k is enumerated (k), a shape or a notes page of it being unreadable
ReadOutcomesOf(call, st) ==
    IF /\ call.name = "extract_slide_content"
       /\ call.arguments.json # "invalid"
       /\ st.files[presentation_path].state = "saved"
    THEN 0..Len(st.files[presentation_path].prs)
    ELSE {0}

KeepSlides(content) == content

\* state.slides_content = []
ClearSlides(content) == <<>>

\* the slides appended to state.slides_content before slide number read raised
KeepPartial(extracted, read) == SubSeq(extracted, 1, read - 1)

tool_extract_slide_content(st, read) ==
    IF st.files[presentation_path].state # "saved"
    THEN [st EXCEPT !.raised = "PackageNotFoundError"]
    ELSE LET prs == st.files[presentation_path].prs
         IN  IF read > 0
             THEN [st EXCEPT !.slides_content =
                                ClearSlides(st.slides_content)
                                   \o KeepPartial(ExtractSlides(prs), read),
                             !.raised = "ReadError"]
             ELSE [st EXCEPT !.slides_content =
                                ClearSlides(st.slides_content) \o ExtractSlides(prs),
                             !.result = [slides |-> ExtractSlides(prs),
                                         total_slides |-> Len(prs)]]

(***************************************************************************)
(* tool_analyze_text_for_errors: the verdict is the language model's       *)
(***************************************************************************)
tool_analyze_text_for_errors(st, slide_number, text) ==
    [st EXCEPT !.result = [has_errors |-> TRUE, corrected_text |-> text,
                           errors_found |-> <<>>]]

(***************************************************************************)
(* tool_analyze_alignment                                                  *)
(***************************************************************************)
\* "Title" in shape.name, for the shape names of the model
TitleNames == {"Title", "Title 1", "Subtitle Title"}

RECURSIVE TitlesOfSlide(_, _, _)
TitlesOfSlide(slide, n, i) ==
    IF i > Len(slide) THEN <<>>
    ELSE (IF slide[i].name \in TitleNames
          THEN << [slide |-> n, name |-> slide[i].name, left |-> slide[i].left] >>
          ELSE <<>>) \o TitlesOfSlide(slide, n, i + 1)

TitlePositions(prs) ==
    Concat([n \in 1..Len(prs) |-> TitlesOfSlide(prs[n], n, 1)])

LeftCount(positions, left) ==
    Cardinality({i \in 1..Len(positions) : positions[i].left = left})

FirstLeft(positions) == positions[1].left

UnstableLeft(positions) ==
    LET tied == {positions[i].left : i \in
                   {i \in 1..Len(positions) :
                      \A j \in 1..Len(positions) :
                         LeftCount(positions, positions[j].left)
                            <= LeftCount(positions, positions[i].left)}}
    IN  IF iteration % 2 = 0
        THEN CHOOSE left \in tied : \A other \in tied : left <= other
        ELSE CHOOSE left \in tied : \A other \in tied : left >= other

\* max(left_counts.items(), key=count)[0]: of the lefts with the highest count,
\* the one the dict holds first, which is the one met first
MostCommonLeft(positions) ==
    LET best == CHOOSE i \in 1..Len(positions) :
            /\ \A j \in 1..Len(positions) :
                  LeftCount(positions, positions[j].left)
                      <= LeftCount(positions, positions[i].left)
            /\ \A j \in 1..(i - 1) :
                  LeftCount(positions, positions[j].left)
                      < LeftCount(positions, positions[i].left)
    IN  positions[best].left

IsMisaligned(standard, pos) == pos.left # standard

Misaligned(positions) ==
    LET standard == MostCommonLeft(positions)
        Off(pos) == IsMisaligned(standard, pos)
    IN  SelectSeq(positions, Off)

tool_analyze_alignment(st) ==
    IF st.files[presentation_path].state # "saved"
    THEN [st EXCEPT !.raised = "PackageNotFoundError"]
    ELSE LET positions == TitlePositions(st.files[presentation_path].prs)
         IN  IF positions = <<>>
             THEN [st EXCEPT !.result = [has_issues |-> FALSE,
                                         message |-> "No titles found"]]
             ELSE [st EXCEPT !.result =
                      [has_issues |-> Len(Misaligned(positions)) > 0,
                       standard_left_position |-> MostCommonLeft(positions),
                       misaligned_titles |-> Misaligned(positions)]]

(***************************************************************************)
(* tool_add_correction                                                     *)
(***************************************************************************)
AddUnlessPending(st, c) ==
    [st EXCEPT !.pending_corrections =
                   IF \E i \in 1..Len(st.pending_corrections) :
                          st.pending_corrections[i] = c
                   THEN st.pending_corrections
                   ELSE Append(st.pending_corrections, c),
               !.result = [status |-> "added",
                           correction |-> [slide |-> c.slide_number,
                                           shape |-> c.shape_name,
                                           type |-> c.correction_type,
                                           original |-> c.original_text,
                                           corrected |-> c.corrected_text]]]

tool_add_correction(st, c) ==
    [st EXCEPT !.pending_corrections = Append(st.pending_corrections, c),
               !.result = [status |-> "added",
                           correction |-> [slide |-> c.slide_number,
                                           shape |-> c.shape_name,
                                           type |-> c.correction_type,
                                           original |-> c.original_text,
                                           corrected |-> c.corrected_text]]]

(***************************************************************************)
(* tool_apply_all_corrections                                              *)
(***************************************************************************)
\* prs.save(path) either stores the presentation, or raises leaving the path
\* as it was, or raises leaving a partly written file
SaveOutcomes == {"saved", "refused", "partial"}

\* the outcomes of the save a tool call reaches, "saved" if it reaches none
SaveOutcomesOf(call, st) ==
    IF /\ call.name = "apply_all_corrections"
       /\ call.arguments.json # "invalid"
       /\ st.pending_corrections # <<>>
    THEN SaveOutcomes
    ELSE {"saved"}

SaveTo(fs, path, prs) == [fs EXCEPT ![path] = File(prs)]

OverwriteApplied(applied, pending) == pending

\* state.applied_corrections.extend(state.pending_corrections)
ExtendApplied(applied, pending) == applied \o pending

KeepPending(pending) == pending

\* state.pending_corrections = []
ClearPending(pending) == <<>>

MoveThenRaise(st, fs) ==
    [st EXCEPT !.files = fs, !.raised = "OSError",
               !.applied_corrections =
                   ExtendApplied(st.applied_corrections, st.pending_corrections),
               !.pending_corrections = ClearPending(st.pending_corrections)]

\* prs.save raises: the lines after it are not reached
SaveRaises(st, fs) == [st EXCEPT !.files = fs, !.raised = "OSError"]

\* the pass itself: the document is opened, corrected and saved
ApplyPass(st, save) ==
    IF st.files[presentation_path].state # "saved"
    THEN [st EXCEPT !.raised = "PackageNotFoundError"]
    ELSE LET pass == ApplyPending(st.files[presentation_path].prs,
                                  st.pending_corrections)
         IN  CASE save = "saved" ->
                    [st EXCEPT !.files = SaveTo(st.files, output_path, pass.prs),
                               !.applied_corrections =
                                   ExtendApplied(st.applied_corrections,
                                                 st.pending_corrections),
                               !.pending_corrections =
                                   ClearPending(st.pending_corrections),
                               !.result = [status |-> "success",
                                           corrections_applied |-> Len(pass.applied),
                                           details |-> pass.applied,
                                           output_file |-> output_path]]
               [] save = "refused" -> SaveRaises(st, st.files)
               [] save = "partial" ->
                    SaveRaises(st, [st.files EXCEPT ![output_path] = PartialFile])

NoCorrections(st) ==
    [st EXCEPT !.result = [status |-> "no_corrections",
                           message |-> "No corrections to apply"]]

ApplyOpensFirst(st, save) ==
    IF st.files[presentation_path].state # "saved"
    THEN [st EXCEPT !.raised = "PackageNotFoundError"]
    ELSE IF st.pending_corrections = <<>> THEN NoCorrections(st)
    ELSE ApplyPass(st, save)

tool_apply_all_corrections(st, save) ==
    IF st.pending_corrections = <<>> THEN NoCorrections(st)
    ELSE ApplyPass(st, save)

(***************************************************************************)
(* tool_mark_complete                                                      *)
(***************************************************************************)
MarkCompleteClearsPending(st) ==
    [st EXCEPT !.is_complete = TRUE,
               !.pending_corrections = <<>>,
               !.result = [status |-> "complete",
                           total_corrections |-> Len(st.applied_corrections),
                           output_file |-> output_path]]

tool_mark_complete(st) ==
    [st EXCEPT !.is_complete = TRUE,
               !.result = [status |-> "complete",
                           total_corrections |-> Len(st.applied_corrections),
                           output_file |-> output_path]]

(***************************************************************************)
(* The tool registry and the dispatch of one tool call                     *)
(***************************************************************************)
TOOLS == {"extract_slide_content", "analyze_text_for_errors", "analyze_alignment",
          "add_correction", "apply_all_corrections", "mark_complete"}

NoArgTools == {"extract_slide_content", "analyze_alignment",
               "apply_all_corrections", "mark_complete"}

AnalyzeTextKeys == {"slide_number", "text"}

AddCorrectionKeys == {"slide_number", "shape_name", "original_text",
                      "corrected_text", "correction_type", "reasoning"}

\* A tool call of the language model: its id, the tool's name and the
\* arguments string: json is "invalid" (json.loads raises), "empty" (the
\* empty string, read as {}) or "object" with the keys the object holds; the
\* values of the keys are in correction (add_correction) and text.
ToolCall(id, name, json, keys, correction) ==
    [id |-> id, name |-> name,
     arguments |-> [json |-> json, keys |-> keys, correction |-> correction]]

\* json.loads(arguments) if arguments else {}: the keys of tool_args
ArgKeys(arguments) == IF arguments.json = "empty" THEN {} ELSE arguments.keys

Lookup(keys, needed) == needed \subseteq keys

\* the body of "for tool_call in assistant_message.tool_calls" up to result
Dispatch(call, st, save, read) ==
    IF call.arguments.json = "invalid"
    THEN [st EXCEPT !.raised = "JSONDecodeError"]
    ELSE IF call.name \in TOOLS
    THEN CASE call.name = "extract_slide_content" -> tool_extract_slide_content(st, read)
           [] call.name = "analyze_alignment" -> tool_analyze_alignment(st)
           [] call.name = "apply_all_corrections" -> tool_apply_all_corrections(st, save)
           [] call.name = "mark_complete" -> tool_mark_complete(st)
           [] call.name = "analyze_text_for_errors" ->
                IF Lookup(ArgKeys(call.arguments), AnalyzeTextKeys)
                THEN tool_analyze_text_for_errors(
                        st, call.arguments.correction.slide_number,
                        call.arguments.correction.original_text)
                ELSE [st EXCEPT !.raised = "KeyError"]
           [] call.name = "add_correction" ->
                IF Lookup(ArgKeys(call.arguments), AddCorrectionKeys)
                THEN tool_add_correction(st, call.arguments.correction)
                ELSE [st EXCEPT !.raised = "KeyError"]
    ELSE [st EXCEPT !.result = [error |-> "Tool not found", tool |-> call.name]]

(***************************************************************************)
(* The transcript                                                          *)
(***************************************************************************)
SystemMessage == [role |-> "system", content |-> "SYSTEM_PROMPT"]
UserMessage == [role |-> "user", content |-> "Please review and correct"]

\* assistant_message.model_dump()
AssistantMessage(content, calls) ==
    [role |-> "assistant", content |-> content, tool_calls |-> calls]

ToolMessageOfFirstCall(call, result) ==
    [role |-> "tool", tool_call_id |-> <<call.id[1], 1>>, content |-> result]

ToolMessage(call, result) ==
    [role |-> "tool", tool_call_id |-> call.id, content |-> result]

(***************************************************************************)
(* The language model: what one call of it may return                      *)
(***************************************************************************)
SpellFix == Correction(1, "Body", <<"a">>, <<"d">>, "spelling", "typo")
NoMatchFix == Correction(1, "Body", <<"z">>, <<"d">>, "spelling", "typo")
OutOfRangeFix == Correction(3, "Title", <<"a">>, <<"d">>, "grammar", "agreement")

Proposals == {SpellFix, NoMatchFix, OutOfRangeFix}

NoCorrection == Correction(0, "", <<>>, <<>>, "", "")

\* a tool call before the response numbers it
Call(name, json, keys, correction) == ToolCall(<<0, 0>>, name, json, keys, correction)

WellFormedCalls ==
    {Call(name, "object", {}, NoCorrection) : name \in NoArgTools}
      \cup {Call("add_correction", "object", AddCorrectionKeys, c) : c \in Proposals}
      \cup {Call("analyze_text_for_errors", "object", AnalyzeTextKeys, SpellFix),
            Call("delete_slide", "empty", {}, NoCorrection)}

MalformedCalls ==
    {Call("add_correction", "object", AddCorrectionKeys \ {"slide_number"}, SpellFix),
     Call("analyze_text_for_errors", "object", {"text"}, SpellFix),
     Call("extract_slide_content", "invalid", {}, NoCorrection)}

\* the responses with tool calls: up to MaxCallsPerResponse calls; a call
\* that raises is the last of its response, what follows it would never run
CallLists(calls, faults) ==
    LET Lists(n) == UNION {[1..k -> calls] : k \in 0..n}
    IN  (Lists(MaxCallsPerResponse) \ {<<>>})
          \cup {list \o <<bad>> :
                  list \in Lists(MaxCallsPerResponse - 1), bad \in faults}

WorkingCalls == {call \in WellFormedCalls :
                    call.name \in {"add_correction", "apply_all_corrections",
                                   "mark_complete"}}

WorkingCallLists == CallLists(WorkingCalls, MalformedCalls)

\* an idling run proposes one correction at most, and sends well-formed calls
IdleCalls == {call \in WellFormedCalls :
                 call.name = "add_correction" => call.arguments.correction = SpellFix}

IdleCallLists == CallLists(IdleCalls, {})

IsAssistant(m) == m.role = "assistant"

\* the tool calls the model has issued so far, in order
IssuedCalls(transcript) ==
    LET replies == SelectSeq(transcript, IsAssistant)
    IN  Concat([i \in 1..Len(replies) |-> replies[i].tool_calls])

CountOf(calls, names) ==
    Cardinality({i \in 1..Len(calls) : calls[i].name \in names})

\* a working run: the model proposes corrections, applies them and completes;
\* a malformed call or mark_complete may come at any time
WorkingResponses(issued) ==
    {calls \in WorkingCallLists :
        /\ CountOf(issued, {"add_correction"}) + CountOf(calls, {"add_correction"})
              <= MaxProposals
        /\ CountOf(issued, {"apply_all_corrections"})
              + CountOf(calls, {"apply_all_corrections"}) <= MaxApplies}

\* an idling run: the model calls few tools, any of them, and mark_complete
\* at any time
IdleResponses(issued) ==
    {calls \in IdleCallLists :
        (Len(issued) - CountOf(issued, {"mark_complete"}))
          + (Len(calls) - CountOf(calls, {"mark_complete"})) <= MaxIdleToolCalls}

\* the tool calls of the response made in iteration n, numbered
Numbered(calls, n) == [k \in 1..Len(calls) |-> [calls[k] EXCEPT !.id = <<n, k>>]]

(***************************************************************************)
(* run_agent                                                               *)
(***************************************************************************)
\* run_agent starts on the document stored at presentation_path
InitOn(input) ==
    /\ slides_content = <<>>
    /\ pending_corrections = <<>>
    /\ applied_corrections = <<>>
    /\ iteration = 0
    /\ is_complete = FALSE
    /\ messages = <<SystemMessage, UserMessage>>
    /\ files = [p \in Paths |-> IF p = presentation_path THEN input ELSE NoFile]
    /\ pc = "loop"
    /\ tool_calls = <<>>
    /\ raised = "none"
    /\ summary = NoSummary

Init == InitOn(File(InputDeck))

LoopOneMore == ~ is_complete /\ iteration <= MAX_ITERATIONS

LoopIgnoresCompletion == iteration < MAX_ITERATIONS

\* while not state.is_complete and state.iteration < MAX_ITERATIONS, and the
\* break on state.is_complete that ends the loop body
LoopContinues == ~ is_complete /\ iteration < MAX_ITERATIONS

ModelReplyTrims ==
    /\ pc = "loop"
    /\ LoopContinues
    /\ iteration' = iteration + 1
    /\ messages' = <<SystemMessage, UserMessage, AssistantMessage("text", <<>>)>>
    /\ tool_calls' = <<>>
    /\ pc' = "loop"
    /\ UNCHANGED << slides_content, pending_corrections, applied_corrections,
                    is_complete, files, raised, summary >>

ModelReplyUncounted ==
    /\ pc = "loop"
    /\ LoopContinues
    /\ messages' = Append(messages, AssistantMessage("text", <<>>))
    /\ tool_calls' = <<>>
    /\ pc' = "loop"
    /\ UNCHANGED << slides_content, pending_corrections, applied_corrections,
                    iteration, is_complete, files, raised, summary >>

ModelReplyCompletes ==
    /\ pc = "loop"
    /\ LoopContinues
    /\ iteration' = iteration + 1
    /\ messages' = Append(messages, AssistantMessage("text", <<>>))
    /\ tool_calls' = <<>>
    /\ pc' = "loop"
    /\ is_complete' = TRUE
    /\ UNCHANGED << slides_content, pending_corrections, applied_corrections,
                    files, raised, summary >>

\* one pass of the while loop in which the language model answers in free
\* text: the counter, the call of the model, the assistant's message
ModelReply ==
    /\ pc = "loop"
    /\ LoopContinues
    /\ iteration' = iteration + 1
    /\ messages' = Append(messages, AssistantMessage("text", <<>>))
    /\ tool_calls' = <<>>
    /\ pc' = "loop"
    /\ UNCHANGED << slides_content, pending_corrections, applied_corrections,
                    is_complete, files, raised, summary >>

\* one pass of the while loop up to the tool calls: the counter, the call of
\* the language model, the assistant's message with one of the responses
ModelCall(responses) ==
    /\ pc = "loop"
    /\ LoopContinues
    /\ iteration' = iteration + 1
    /\ \E calls \in responses :
          /\ messages' = Append(messages,
                 AssistantMessage("none", Numbered(calls, iteration + 1)))
          /\ tool_calls' = Numbered(calls, iteration + 1)
          /\ pc' = "tools"
    /\ UNCHANGED << slides_content, pending_corrections, applied_corrections,
                    is_complete, files, raised, summary >>

LastToolCall(calls) == calls[Len(calls)]

\* for tool_call in assistant_message.tool_calls: the call the loop is at
NextToolCall(calls) == Head(calls)

CallsLeftUnlessDone(calls, done) == IF done THEN <<>> ELSE Tail(calls)

\* the calls the for loop still has to go through after this one: the loop
\* has no break, is_complete is looked at only after it
CallsLeft(calls, done) == Tail(calls)

\* one pass of the for loop over the response's tool calls
ExecToolCall ==
    /\ pc = "tools"
    /\ \E save \in SaveOutcomesOf(NextToolCall(tool_calls), ToolState),
          read \in ReadOutcomesOf(NextToolCall(tool_calls), ToolState) :
         LET call == NextToolCall(tool_calls)
             out == Dispatch(call, ToolState, save, read)
         IN  /\ slides_content' = out.slides_content
             /\ pending_corrections' = out.pending_corrections
             /\ applied_corrections' = out.applied_corrections
             /\ is_complete' = out.is_complete
             /\ files' = out.files
             /\ raised' = out.raised
             /\ IF out.raised # "none"
                THEN /\ pc' = "raised"
                     /\ UNCHANGED << messages, tool_calls >>
                ELSE /\ messages' = Append(messages, ToolMessage(call, out.result))
                     /\ tool_calls' = CallsLeft(tool_calls, out.is_complete)
                     /\ pc' = IF CallsLeft(tool_calls, out.is_complete) = <<>>
                              THEN "loop" ELSE "tools"
    /\ UNCHANGED << iteration, summary >>

Detail(c) ==
    [slide |-> c.slide_number, type |-> c.correction_type,
     original |-> c.original_text, corrected |-> c.corrected_text]

SummaryMostRecentFirst ==
    [returned |-> TRUE,
     iterations |-> iteration,
     corrections |-> Len(applied_corrections),
     output_file |-> output_path,
     details |-> [i \in 1..Len(applied_corrections) |->
                    Detail(applied_corrections[Len(applied_corrections) + 1 - i])]]

Summary ==
    [returned |-> TRUE,
     iterations |-> iteration,
     corrections |-> Len(applied_corrections),
     output_file |-> output_path,
     details |-> [i \in 1..Len(applied_corrections) |-> Detail(applied_corrections[i])]]

\* the loop is left and the summary returned
Return ==
    /\ pc = "loop"
    /\ ~ LoopContinues
    /\ summary' = Summary
    /\ pc' = "done"
    /\ UNCHANGED << slides_content, pending_corrections, applied_corrections,
                    iteration, is_complete, messages, files, tool_calls, raised >>

\* a working run: every response of the model holds tool calls
Next ==
    \/ ModelCall(WorkingResponses(IssuedCalls(messages)))
    \/ ExecToolCall
    \/ Return

Spec == Init /\ [][Next]_vars

\* an idling run: the model mostly replies in free text, up to the budget
NextIdle ==
    \/ ModelReply
    \/ ModelCall(IdleResponses(IssuedCalls(messages)))
    \/ ExecToolCall
    \/ Return

SpecIdle == Init /\ [][NextIdle]_vars

\* the texts over the letters a and b of up to n characters
TextsUpTo(n) == UNION {[1..k -> {"a", "b"}] : k \in 0..n}

\* a document of one slide with one shape, "Body", whose paragraph has the
\* given run followed by the run "b"
RunDeck(text) == << << Shape("Body", 10, TRUE, << <<text, <<"b">>>> >>) >> >>

TehText == <<"T", "e", "h", " ", "q", "u", "i", "k", "c", " ", "t", "e", "t", "s">>

EditDecks == {RunDeck(text) : text \in TextsUpTo(MaxRunLen) \cup {TehText}}

\* the documents an editing run may start on, and no document at all
EditInputs == {File(deck) : deck \in EditDecks} \cup {NoFile}

TehFix == Correction(1, "Body", <<"T", "e", "h">>, <<"t", "h", "e">>, "spelling", "typo")

\* the corrections of an editing run: text corrections of the shape, one of
\* them of each text category, and two whose slide does not exist
Edits ==
    {Correction(1, "Body", old, new, "spelling", "typo") :
        old \in {<<"a">>, <<"a", "a">>}, new \in {<<>>, <<"b">>}}
      \cup {TehFix,
            Correction(1, "Body", <<"a", "b">>, <<"b", "a">>, "grammar", "order"),
            Correction(1, "Body", <<"b">>, <<"a", "b">>, "formatting", "style"),
            Correction(0, "Body", <<"a">>, <<"b">>, "spelling", "typo"),
            Correction(2, "Body", <<"a">>, <<"b">>, "spelling", "typo")}

\* an editing run: the model proposes up to MaxEdits corrections one by one,
\* applies once, then completes
EditResponses(issued) ==
    IF CountOf(issued, {"apply_all_corrections"}) > 0
    THEN {<<Call("mark_complete", "object", {}, NoCorrection)>>}
    ELSE {<<Call("apply_all_corrections", "object", {}, NoCorrection)>>}
           \cup (IF CountOf(issued, {"add_correction"}) < MaxEdits
                 THEN {<<Call("add_correction", "object", AddCorrectionKeys, c)>> :
                          c \in Edits}
                 ELSE {})

InitEdit == \E input \in EditInputs : InitOn(input)

NextEdit ==
    \/ ModelCall(EditResponses(IssuedCalls(messages)))
    \/ ExecToolCall
    \/ Return

SpecEdit == InitEdit /\ [][NextEdit]_vars

\* a document with one slide per left position: a title placeholder at that
\* position and a body
TitleDeck(lefts) ==
    [n \in 1..Len(lefts) |->
        << Shape("Title 1", lefts[n], TRUE, << << <<"a">> >> >>),
           Shape("Body", 10, TRUE, << << <<"b">> >> >>) >>]

\* the documents a reading run may start on: up to MaxSlides slides with the
\* title at one of two positions, and the presentation of the other runs
ReadDecks ==
    {TitleDeck(lefts) : lefts \in UNION {[1..k -> {100, 250}] : k \in 0..MaxSlides}}
      \cup {InputDeck}

\* a reading run: the model reads the document up to MaxReads times, one
\* call per response, and completes at any time
ReadResponses(issued) ==
    {<<Call("mark_complete", "object", {}, NoCorrection)>>}
      \cup (IF CountOf(issued, {"extract_slide_content", "analyze_alignment"})
                 < MaxReads
            THEN {<<Call(name, "object", {}, NoCorrection)>> :
                     name \in {"extract_slide_content", "analyze_alignment"}}
            ELSE {})

InitRead == \E deck \in ReadDecks : InitOn(File(deck))

NextRead ==
    \/ ModelCall(ReadResponses(IssuedCalls(messages)))
    \/ ExecToolCall
    \/ Return

SpecRead == InitRead /\ [][NextRead]_vars

\* the texts the model gives as the new left position of a shape: integers,
\* with and without a sign, and texts int() rejects
AlignTexts ==
    {<<"1", "2", "0">>, <<"-", "5">>, <<"+", "7">>, <<"1", "2", ".", "5">>,
     <<"l", "e", "f", "t">>, <<>>}

\* the corrections of an aligning run: the two shapes named "Body" moved,
\* the picture (a shape without text frame) moved, and a text correction
AlignEdits ==
    {Correction(1, "Body", <<"1", "0">>, text, "alignment", "align") :
        text \in AlignTexts}
      \cup {Correction(2, "Picture", <<"3", "0">>, <<"1", "2", "0">>, "alignment", "align"),
            SpellFix}

\* an aligning run: the model proposes up to MaxEdits corrections one by
\* one, applies once, then completes
AlignResponses(issued) ==
    IF CountOf(issued, {"apply_all_corrections"}) > 0
    THEN {<<Call("mark_complete", "object", {}, NoCorrection)>>}
    ELSE {<<Call("apply_all_corrections", "object", {}, NoCorrection)>>}
           \cup (IF CountOf(issued, {"add_correction"}) < MaxEdits
                 THEN {<<Call("add_correction", "object", AddCorrectionKeys, c)>> :
                          c \in AlignEdits}
                 ELSE {})

NextAlign ==
    \/ ModelCall(AlignResponses(IssuedCalls(messages)))
    \/ ExecToolCall
    \/ Return

SpecAlign == Init /\ [][NextAlign]_vars

\* a batch: two different corrections proposed and applied in one response
BatchLists ==
    {<<Call("add_correction", "object", AddCorrectionKeys, c1),
       Call("add_correction", "object", AddCorrectionKeys, c2),
       Call("apply_all_corrections", "object", {}, NoCorrection)>> :
        <<c1, c2>> \in {<<SpellFix, OutOfRangeFix>>, <<OutOfRangeFix, SpellFix>>}}

\* a batch run: up to MaxBatches batches, mark_complete at any time
BatchResponses(issued) ==
    {<<Call("mark_complete", "object", {}, NoCorrection)>>}
      \cup (IF CountOf(issued, {"apply_all_corrections"}) < MaxBatches
            THEN BatchLists ELSE {})

\* a batch run: the model applies batches of corrections between free-text
\* replies, and completes or uses up the budget
NextBatch ==
    \/ ModelReply
    \/ ModelCall(BatchResponses(IssuedCalls(messages)))
    \/ ExecToolCall
    \/ Return

SpecBatch == Init /\ [][NextBatch]_vars

\* a straying run: the model also asks for a tool the registry does not
\* have, with no arguments, with an arguments object, or with arguments
\* that are not JSON
MaxStrayCalls == 4

StrayCalls ==
    {Call("delete_slide", "empty", {}, NoCorrection),
     Call("delete_slide", "object", {"slide_number"}, NoCorrection),
     Call("add_correction", "object", AddCorrectionKeys, SpellFix),
     Call("mark_complete", "object", {}, NoCorrection)}

StrayFaults == {Call("delete_slide", "invalid", {}, NoCorrection)}

StrayResponses(issued) ==
    {calls \in CallLists(StrayCalls, StrayFaults) :
        Len(issued) + Len(calls) <= MaxStrayCalls}

NextStray ==
    \/ ModelCall(StrayResponses(IssuedCalls(messages)))
    \/ ExecToolCall
    \/ Return

SpecStray == Init /\ [][NextStray]_vars

(***************************************************************************)
(* What the transcript records of a run                                    *)
(***************************************************************************)
IsTool(m) == m.role = "tool"

\* the calls of the language model made so far: one assistant message each
ModelCalls == Len(SelectSeq(messages, IsAssistant))

\* m is the result of a tool that reports the given status
HasStatus(m, status) ==
    /\ m.role = "tool"
    /\ "status" \in DOMAIN m.content
    /\ m.content.status = status

\* the free-text replies of the model so far
TextReplies(transcript) ==
    LET replies == SelectSeq(transcript, IsAssistant)
    IN  Cardinality({i \in 1..Len(replies) : replies[i].tool_calls = <<>>})

\* the model has asked for mark_complete
MarkCompleteIssued == CountOf(IssuedCalls(messages), {"mark_complete"}) > 0

\* the iterations in which mark_complete was executed
CompletedIn ==
    {messages[i].tool_call_id[1] :
        i \in {j \in 1..Len(messages) : HasStatus(messages[j], "complete")}}

\* the terminal state of the loop, once run_agent has returned
Terminal == IF is_complete THEN "COMPLETE" ELSE "BUDGET_EXHAUSTED"

(***************************************************************************)
(* C1.  With MAX_ITERATIONS = 20 and a model that never calls              *)
(* mark_complete, a run in which nothing raises ends after exactly 20      *)
(* iterations and exactly 20 calls of the model, with is_complete false,   *)
(* and returns its summary; the model is never called a 21st time.         *)
(***************************************************************************)
BudgetEndsRun ==
    /\ ModelCalls <= MAX_ITERATIONS
    /\ (pc = "loop" /\ ~ MarkCompleteIssued /\ iteration < MAX_ITERATIONS)
          => ENABLED ModelReply
    /\ (pc = "done" /\ ~ MarkCompleteIssued)
          => /\ iteration = MAX_ITERATIONS
             /\ ModelCalls = MAX_ITERATIONS
             /\ is_complete = FALSE
             /\ raised = "none"
             /\ summary.returned
             /\ summary.iterations = MAX_ITERATIONS

\* a run of free-text replies and tool calls that used up the budget
BudgetEndsRunWitness ==
    /\ pc = "done"
    /\ ~ MarkCompleteIssued
    /\ iteration = MAX_ITERATIONS
    /\ TextReplies(messages) > 0
    /\ Len(IssuedCalls(messages)) > 0

(***************************************************************************)
(* C2.  Once mark_complete has set is_complete, the model is not called    *)
(* again and the counter stays: a run that returns after mark_complete     *)
(* ran in iteration k returns with iteration = k, in the terminal state    *)
(* COMPLETE, also for k = MAX_ITERATIONS.                                  *)
(***************************************************************************)
CompletionEndsRun ==
    /\ [](pc = "done" /\ CompletedIn # {}
            => /\ CompletedIn = {iteration}
               /\ summary.iterations = iteration
               /\ Terminal = "COMPLETE")
    /\ [][is_complete => /\ iteration' = iteration
                         /\ is_complete'
                         /\ SelectSeq(messages', IsAssistant)
                               = SelectSeq(messages, IsAssistant)]_vars

\* mark_complete ran in the last iteration the budget allows
CompletionEndsRunWitness ==
    /\ pc = "done"
    /\ is_complete
    /\ CompletedIn = {MAX_ITERATIONS}

(***************************************************************************)
(* Steps of the for loop, named by what they do                            *)
(***************************************************************************)
\* the step executes a call of the named tool
Executes(name) == pc = "tools" /\ Head(tool_calls).name = name

\* the step is an apply pass over a non-empty pending list that saved
ApplyPassSaves ==
    /\ Executes("apply_all_corrections")
    /\ pending_corrections # <<>>
    /\ raised' = "none"

\* the step is an apply pass whose save raised
ApplyPassSaveRaises ==
    /\ Executes("apply_all_corrections")
    /\ pending_corrections # <<>>
    /\ raised' # "none"

\* the passes that saved so far
PassesSaved ==
    Cardinality({i \in 1..Len(messages) : HasStatus(messages[i], "success")})

\* the presentation the file at path holds
Stored(path) == files[path].prs

(***************************************************************************)
(* C3.  Every correction in applied_corrections is persisted: the          *)
(* presentation last saved at output_path is the input with every          *)
(* correction of applied_corrections applied, in order.                    *)
(***************************************************************************)
AppliedArePersisted ==
    (files[output_path].state = "saved" /\ applied_corrections # <<>>)
        => Stored(output_path) = ApplyPending(InputDeck, applied_corrections).prs

(***************************************************************************)
(* C4.  An apply pass over a non-empty pending list that saves leaves      *)
(* pending empty and applied equal to its previous value followed by the   *)
(* previously pending corrections, in their order.                         *)
(***************************************************************************)
PassTransfersPending ==
    [][ApplyPassSaves
          => /\ pending_corrections' = <<>>
             /\ applied_corrections' = applied_corrections \o pending_corrections]_vars

\* a second pass has appended to the corrections the first one applied
PassTransfersPendingWitness ==
    /\ PassesSaved = 2
    /\ Len(applied_corrections) = 2
    /\ pending_corrections = <<>>

(***************************************************************************)
(* C5.  apply_all_corrections called again with no add_correction since    *)
(* the last call of it returns the no-corrections result and changes       *)
(* neither pending (empty), nor applied, nor any file.                     *)
(***************************************************************************)
IsApplyResult(m) == HasStatus(m, "success") \/ HasStatus(m, "no_corrections")

\* apply_all_corrections has returned and add_correction has not since
NoAddSinceApply ==
    \E i \in 1..Len(messages) :
        /\ IsApplyResult(messages[i])
        /\ \A j \in (i + 1)..Len(messages) : ~ HasStatus(messages[j], "added")

SecondApplyIsNoOp ==
    [][(Executes("apply_all_corrections") /\ NoAddSinceApply)
          => /\ raised' = "none"
             /\ messages' = Append(messages,
                   [role |-> "tool", tool_call_id |-> Head(tool_calls).id,
                    content |-> [status |-> "no_corrections",
                                 message |-> "No corrections to apply"]])
             /\ pending_corrections = <<>>
             /\ pending_corrections' = <<>>
             /\ applied_corrections' = applied_corrections
             /\ files' = files]_vars

\* a pass that saved, directly followed by another call of the tool
SecondApplyIsNoOpWitness ==
    /\ Len(messages) > 2
    /\ HasStatus(messages[Len(messages)], "no_corrections")
    /\ HasStatus(messages[Len(messages) - 1], "success")
    /\ applied_corrections # <<>>

(***************************************************************************)
(* C6.  A tool call with malformed arguments does not end the run: its     *)
(* step appends a tool-error result for the call id to the transcript,     *)
(* changes nothing else of the state, and the loop goes on.                *)
(***************************************************************************)
IsMalformed(call) ==
    \/ call.arguments.json = "invalid"
    \/ /\ call.name = "add_correction"
       /\ ~ (AddCorrectionKeys \subseteq ArgKeys(call.arguments))
    \/ /\ call.name = "analyze_text_for_errors"
       /\ ~ (AnalyzeTextKeys \subseteq ArgKeys(call.arguments))

MalformedCallIsSurfaced ==
    [][(pc = "tools" /\ IsMalformed(Head(tool_calls)))
          => /\ pc' # "raised"
             /\ raised' = "none"
             /\ Len(messages') = Len(messages) + 1
             /\ messages'[Len(messages')].role = "tool"
             /\ messages'[Len(messages')].tool_call_id = Head(tool_calls).id
             /\ "error" \in DOMAIN messages'[Len(messages')].content
             /\ UNCHANGED << slides_content, pending_corrections,
                             applied_corrections, is_complete, files >>]_vars

(***************************************************************************)
(* C7.  As the specification states it: of several shapes of a slide that  *)
(* share a name only the first is modified, and a later one is stored as   *)
(* the input has it.                                                       *)
(***************************************************************************)
LaterSameNameShapesKept ==
    files[output_path].state = "saved"
        => \A n \in 1..Len(InputDeck) : \A i \in 1..Len(InputDeck[n]) :
              (\E j \in 1..(i - 1) : InputDeck[n][j].name = InputDeck[n][i].name)
                  => Stored(output_path)[n][i] = InputDeck[n][i]

\* the shape of slide n after the corrections that name it, taken in order
RECURSIVE ShapeAfter(_, _, _)
ShapeAfter(shape, n, corrections) ==
    IF corrections = <<>> THEN shape
    ELSE LET c == Head(corrections)
         IN  ShapeAfter(IF c.slide_number = n /\ c.shape_name = shape.name
                        THEN ApplyToShape(shape, c) ELSE shape,
                        n, Tail(corrections))

(***************************************************************************)
(* C7, amended.  A pass that saves stores every shape, the first of its    *)
(* name on its slide or a later one, with every pending correction that    *)
(* names its slide and its name applied to it, in the order of pending.    *)
(***************************************************************************)
EverySameNameShapeCorrected ==
    [][ApplyPassSaves
          => /\ files'[output_path].state = "saved"
             /\ Len(files'[output_path].prs) = Len(Stored(presentation_path))
             /\ \A n \in 1..Len(Stored(presentation_path)) :
                   /\ Len(files'[output_path].prs[n]) = Len(Stored(presentation_path)[n])
                   /\ \A i \in 1..Len(Stored(presentation_path)[n]) :
                         files'[output_path].prs[n][i]
                            = ShapeAfter(Stored(presentation_path)[n][i], n,
                                         pending_corrections)]_vars

\* the second shape named "Body" of slide 1 is stored with its text changed
EverySameNameShapeCorrectedWitness ==
    /\ files[output_path].state = "saved"
    /\ InputDeck[1][2].name = InputDeck[1][3].name
    /\ Stored(output_path)[1][2] # InputDeck[1][2]
    /\ Stored(output_path)[1][3] # InputDeck[1][3]

(***************************************************************************)
(* C8.  A correction that changes nothing in the document (its slide is    *)
(* out of range, no shape of the slide has its name, or no run of the      *)
(* named shapes holds its original text) is in neither                     *)
(* applied_corrections nor the summary's count and details.                *)
(***************************************************************************)
ChangesNothing(c) ==
    \/ ~ SlideInRange(InputDeck, c)
    \/ \A i \in 1..Len(InputDeck[c.slide_number]) :
          LET shape == InputDeck[c.slide_number][i]
          IN  \/ shape.name # c.shape_name
              \/ /\ c.correction_type # "alignment"
                 /\ \A p \in 1..Len(shape.paragraphs) :
                       \A r \in 1..Len(shape.paragraphs[p]) :
                          ~ Contains(shape.paragraphs[p][r], c.original_text)

Effective(corrections) ==
    {i \in 1..Len(corrections) : ~ ChangesNothing(corrections[i])}

NoEffectNotCounted ==
    /\ \A i \in 1..Len(applied_corrections) : ~ ChangesNothing(applied_corrections[i])
    /\ summary.returned
          => /\ summary.corrections = Cardinality(Effective(applied_corrections))
             /\ Len(summary.details) = Cardinality(Effective(applied_corrections))

(***************************************************************************)
(* C9.  When the save of an apply pass raises, the exception leaves        *)
(* run_agent: no step follows it, and pending_corrections and              *)
(* applied_corrections are as they were before the call.                   *)
(***************************************************************************)
SaveFailureIsFatal ==
    [][/\ pc # "raised"
       /\ ApplyPassSaveRaises
             => /\ pc' = "raised"
                /\ raised' = "OSError"
                /\ pending_corrections' = pending_corrections
                /\ applied_corrections' = applied_corrections
                /\ messages' = messages]_vars

\* the save of a second pass raised: one correction applied, one pending
SaveFailureIsFatalWitness ==
    /\ pc = "raised"
    /\ raised = "OSError"
    /\ Len(pending_corrections) = 1
    /\ Len(applied_corrections) = 1

(***************************************************************************)
(* C10.  In the transcript every assistant message is followed by the      *)
(* results of its tool calls and nothing else: one tool message per call   *)
(* executed, in the order of the calls, each with the id of its call; all  *)
(* calls are answered once the iteration is over, and while it runs the    *)
(* calls not yet answered are those still to execute.                      *)
(***************************************************************************)
\* the tool messages that directly follow message i
RECURSIVE ResultsAfter(_)
ResultsAfter(i) ==
    IF i + 1 <= Len(messages) /\ IsTool(messages[i + 1])
    THEN 1 + ResultsAfter(i + 1) ELSE 0

ResultsFollowCalls ==
    /\ Len(messages) >= 2
    /\ messages[1].role = "system" /\ messages[2].role = "user"
    /\ Len(messages) > 2 => IsAssistant(messages[3])
    /\ \A i \in 3..Len(messages) : IsAssistant(messages[i]) \/ IsTool(messages[i])
    /\ \A i \in 3..Len(messages) :
          IsAssistant(messages[i]) =>
             LET calls == messages[i].tool_calls
                 k == ResultsAfter(i)
             IN  /\ k <= Len(calls)
                 /\ \A j \in 1..k : messages[i + j].tool_call_id = calls[j].id
                 /\ \A j, l \in 1..Len(calls) : calls[j].id = calls[l].id => j = l
                 /\ (i + k < Len(messages) \/ pc \in {"loop", "done"})
                       => k = Len(calls)
                 /\ (i + k = Len(messages) /\ pc = "tools")
                       => tool_calls = SubSeq(calls, k + 1, Len(calls))
                 /\ (i + k = Len(messages) /\ pc = "raised")
                       => k < Len(calls)

\* a response of mark_complete and a tool the registry does not hold, both
\* answered
ResultsFollowCallsWitness ==
    \E i \in 3..Len(messages) :
        /\ IsAssistant(messages[i])
        /\ Len(messages[i].tool_calls) = 2
        /\ messages[i].tool_calls[1].name = "mark_complete"
        /\ messages[i].tool_calls[2].name = "delete_slide"
        /\ i + 2 = Len(messages)
        /\ HasStatus(messages[i + 1], "complete")
        /\ "error" \in DOMAIN messages[i + 2].content
        /\ pc = "done"

(***************************************************************************)
(* C11.  The transcript is append-only: in every step of run_agent the     *)
(* transcript before the step is a prefix of the transcript after it; no   *)
(* message is removed, reordered or rewritten.                             *)
(***************************************************************************)
IsPrefix(short, long) ==
    /\ Len(short) <= Len(long)
    /\ SubSeq(long, 1, Len(short)) = short

TranscriptAppendOnly == [][IsPrefix(messages, messages')]_vars

\* a returned run whose transcript holds a free-text reply, a response with
\* a tool call and that call's result after the two initial messages
TranscriptAppendOnlyWitness ==
    /\ pc = "done"
    /\ Len(messages) >= 5
    /\ SubSeq(messages, 1, 2) = <<SystemMessage, UserMessage>>
    /\ TextReplies(messages) > 0
    /\ \E i \in 3..Len(messages) : IsTool(messages[i])

(***************************************************************************)
(* C12.  The tool calls of one response run one at a time in the order     *)
(* returned, each on the state the previous one left, and the model is not *)
(* called again before all of them have run: add_correction followed by    *)
(* apply_all_corrections in one response applies that correction, the      *)
(* reverse order leaves it pending.                                        *)
(***************************************************************************)
\* message i is a response of two calls with these names, both answered, and
\* the last thing the run did
AnsweredPair(i, first, second) ==
    /\ IsAssistant(messages[i])
    /\ Len(messages[i].tool_calls) = 2
    /\ messages[i].tool_calls[1].name = first
    /\ messages[i].tool_calls[2].name = second
    /\ ~ IsMalformed(messages[i].tool_calls[1])
    /\ ~ IsMalformed(messages[i].tool_calls[2])
    /\ i + 2 = Len(messages)
    /\ pc \in {"loop", "done"}

CallsRunInOrder ==
    /\ tool_calls # <<>> => pc \in {"tools", "raised"}
    /\ pc = "tools" => /\ tool_calls # <<>>
                       /\ ~ ENABLED ModelCall(WorkingResponses(IssuedCalls(messages)))
    /\ \A i \in 3..Len(messages) :
          /\ AnsweredPair(i, "add_correction", "apply_all_corrections")
                => /\ pending_corrections = <<>>
                   /\ applied_corrections # <<>>
                   /\ applied_corrections[Len(applied_corrections)]
                         = messages[i].tool_calls[1].arguments.correction
                   /\ HasStatus(messages[i + 1], "added")
                   /\ HasStatus(messages[i + 2], "success")
          /\ AnsweredPair(i, "apply_all_corrections", "add_correction")
                => /\ pending_corrections
                         = << messages[i].tool_calls[2].arguments.correction >>
                   /\ HasStatus(messages[i + 2], "added")

\* a run whose first response asked for apply then add, leaving the
\* correction pending, and whose second asked for add then apply
CallsRunInOrderWitness ==
    /\ Len(messages) = 8
    /\ AnsweredPair(6, "add_correction", "apply_all_corrections")
    /\ messages[3].tool_calls[1].name = "apply_all_corrections"
    /\ messages[3].tool_calls[2].name = "add_correction"
    /\ HasStatus(messages[4], "no_corrections")
    /\ Len(applied_corrections) = 2
    /\ applied_corrections[1] = messages[3].tool_calls[2].arguments.correction

(***************************************************************************)
(* C13.  An iteration whose response is free text only appends the message *)
(* and counts the iteration: slides_content, pending_corrections,          *)
(* applied_corrections and is_complete keep their values, and the model    *)
(* is called again when the budget allows.                                 *)
(***************************************************************************)
\* the step appends a response without tool calls
AppendsFreeText ==
    /\ Len(messages') = Len(messages) + 1
    /\ IsAssistant(messages'[Len(messages')])
    /\ messages'[Len(messages')].tool_calls = <<>>

FreeTextChangesNothing ==
    /\ [][AppendsFreeText
            => /\ iteration' = iteration + 1
               /\ slides_content' = slides_content
               /\ pending_corrections' = pending_corrections
               /\ applied_corrections' = applied_corrections
               /\ is_complete' = is_complete
               /\ files' = files
               /\ pc' = "loop"
               /\ (iteration' < MAX_ITERATIONS => (ENABLED ModelReply)')]_vars

\* a free-text reply has followed the proposal of a correction
FreeTextChangesNothingWitness ==
    /\ pc = "loop"
    /\ iteration < MAX_ITERATIONS
    /\ IsAssistant(messages[Len(messages)])
    /\ messages[Len(messages)].tool_calls = <<>>
    /\ pending_corrections # <<>>

(***************************************************************************)
(* C14.  When the loop ends, by mark_complete or by the budget, run_agent  *)
(* returns a summary and raises nothing: its iterations is state.iteration,*)
(* its corrections the length of applied_corrections, and its details hold *)
(* one before/after entry per applied correction, in order.                *)
(***************************************************************************)
SummaryAlwaysProduced ==
    /\ (pc = "loop" /\ ~ LoopContinues) => ENABLED Return
    /\ pc \in {"loop", "tools", "raised"} => ~ summary.returned
    /\ raised # "none" => pc = "raised" /\ tool_calls # <<>>
    /\ pc = "done"
          => /\ is_complete \/ iteration = MAX_ITERATIONS
             /\ raised = "none"
             /\ summary.returned
             /\ summary.iterations = iteration
             /\ summary.corrections = Len(applied_corrections)
             /\ Len(summary.details) = Len(applied_corrections)
             /\ \A i \in 1..Len(applied_corrections) :
                   /\ summary.details[i].slide = applied_corrections[i].slide_number
                   /\ summary.details[i].type = applied_corrections[i].correction_type
                   /\ summary.details[i].original = applied_corrections[i].original_text
                   /\ summary.details[i].corrected = applied_corrections[i].corrected_text

\* the budget ran out after a batch of two corrections was applied
SummaryAlwaysProducedWitness ==
    /\ pc = "done"
    /\ ~ is_complete
    /\ iteration = MAX_ITERATIONS
    /\ Len(applied_corrections) = 2
    /\ summary.returned
    /\ summary.details[1].slide # summary.details[2].slide

(***************************************************************************)
(* C15.  apply_all_corrections with nothing pending is a no-op that does   *)
(* not touch the document: it returns no_corrections, it neither opens the *)
(* input (it returns also when there is no input to open) nor saves the    *)
(* output, and both correction lists keep their values.                    *)
(***************************************************************************)
EmptyApplyTouchesNothing ==
    [][(Executes("apply_all_corrections") /\ pending_corrections = <<>>)
          => /\ raised' = "none"
             /\ files' = files
             /\ pending_corrections' = <<>>
             /\ applied_corrections' = applied_corrections
             /\ messages' = Append(messages,
                   [role |-> "tool", tool_call_id |-> Head(tool_calls).id,
                    content |-> [status |-> "no_corrections",
                                 message |-> "No corrections to apply"]])]_vars

\* the call returned in a run that has no input document
EmptyApplyTouchesNothingWitness ==
    /\ files[presentation_path].state = "missing"
    /\ files[output_path].state = "missing"
    /\ HasStatus(messages[Len(messages)], "no_corrections")
    /\ raised = "none"

(***************************************************************************)
(* C17.  A text correction (spelling, grammar, formatting) of a matched    *)
(* shape replaces, in every run that contains original_text, all           *)
(* occurrences of it by corrected_text and changes nothing else of the     *)
(* run; a run that does not contain it is unchanged.  The run              *)
(* "Teh quikc tets" corrected "Teh" to "the" becomes "the quikc tets".     *)
(***************************************************************************)
\* s with every occurrence of old, met left to right, given as new and the
\* text between the occurrences kept (old is not empty)
RECURSIVE AllReplaced(_, _, _)
AllReplaced(s, old, new) ==
    IF ~ Contains(s, old) THEN s
    ELSE LET i == FirstAt(s, old)
         IN  SubSeq(s, 1, i - 1) \o new
               \o AllReplaced(SubSeq(s, i + Len(old), Len(s)), old, new)

TextTypes == {"spelling", "grammar", "formatting"}

\* the run after the text corrections of slide n, taken in order
RECURSIVE RunAfter(_, _, _)
RunAfter(text, n, corrections) ==
    IF corrections = <<>> THEN text
    ELSE LET c == Head(corrections)
         IN  RunAfter(IF c.slide_number = n /\ c.correction_type \in TextTypes
                      THEN AllReplaced(text, c.original_text, c.corrected_text)
                      ELSE text,
                      n, Tail(corrections))

TheQuikcTets == <<"t", "h", "e", " ", "q", "u", "i", "k", "c", " ", "t", "e", "t", "s">>

EveryOccurrenceReplaced ==
    [][ApplyPassSaves
          => /\ \A n \in 1..Len(Stored(presentation_path)) :
                \A i \in 1..Len(Stored(presentation_path)[n]) :
                   LET before == Stored(presentation_path)[n][i]
                       after == files'[output_path].prs[n][i]
                   IN  /\ after.name = before.name
                       /\ after.left = before.left
                       /\ Len(after.paragraphs) = Len(before.paragraphs)
                       /\ \A p \in 1..Len(before.paragraphs) :
                             /\ Len(after.paragraphs[p]) = Len(before.paragraphs[p])
                             /\ \A r \in 1..Len(before.paragraphs[p]) :
                                   after.paragraphs[p][r]
                                      = RunAfter(before.paragraphs[p][r], n,
                                                 pending_corrections)
             /\ (/\ pending_corrections = <<TehFix>>
                 /\ Stored(presentation_path)[1][1].paragraphs[1][1] = TehText)
                   => files'[output_path].prs[1][1].paragraphs[1][1] = TheQuikcTets]_vars

\* both occurrences of "a" in the run "aa" were replaced, the run "b" after
\* it, which holds no "a", is stored as it was
EveryOccurrenceReplacedWitness ==
    /\ files[output_path].state = "saved"
    /\ files[presentation_path].state = "saved"
    /\ Stored(presentation_path)[1][1].paragraphs[1] = << <<"a", "a">>, <<"b">> >>
    /\ Stored(output_path)[1][1].paragraphs[1] = << <<"b", "b">>, <<"b">> >>
    /\ Len(applied_corrections) = 1

(***************************************************************************)
(* C20.  A pending correction whose slide number is below 1 or above the   *)
(* number of slides changes no shape and raises nothing: the corrections   *)
(* after it are still processed and the document is still saved.           *)
(***************************************************************************)
OutOfRange(prs, c) == c.slide_number < 1 \/ c.slide_number > Len(prs)

\* the corrections of the list whose slide the presentation has
InRangeOnly(prs, corrections) ==
    LET Has(c) == ~ OutOfRange(prs, c) IN SelectSeq(corrections, Has)

\* the step is an apply pass over a list that holds an out-of-range correction
PassOverOutOfRange ==
    /\ Executes("apply_all_corrections")
    /\ files[presentation_path].state = "saved"
    /\ \E i \in 1..Len(pending_corrections) :
          OutOfRange(Stored(presentation_path), pending_corrections[i])

OutOfRangeIsSkipped ==
    [][PassOverOutOfRange
          => /\ raised' \in {"none", "OSError"}
             /\ raised' = "none"
                   => /\ files'[output_path].state = "saved"
                      /\ files'[output_path].prs
                            = ApplyPending(Stored(presentation_path),
                                           InRangeOnly(Stored(presentation_path),
                                                       pending_corrections)).prs
                      /\ HasStatus(messages'[Len(messages')], "success")
                      /\ messages'[Len(messages')].content.details
                            = ApplyPending(Stored(presentation_path),
                                           InRangeOnly(Stored(presentation_path),
                                                       pending_corrections)).applied
                      /\ (InRangeOnly(Stored(presentation_path),
                                      pending_corrections) = <<>>)
                            => files'[output_path].prs = Stored(presentation_path)]_vars

\* a pass over a correction of slide 0 followed by one of slide 1 saved the
\* document with the second applied
OutOfRangeIsSkippedWitness ==
    /\ files[output_path].state = "saved"
    /\ Len(applied_corrections) = 2
    /\ applied_corrections[1].slide_number = 0
    /\ applied_corrections[2].slide_number = 1
    /\ Stored(output_path) # Stored(presentation_path)
    /\ HasStatus(messages[Len(messages)], "success")

(***************************************************************************)
(* C16.  analyze_alignment reports as standard position a left of maximal  *)
(* frequency among the shapes whose name contains "Title"; its misaligned  *)
(* list holds exactly the title shapes whose left differs from it, and     *)
(* has_issues tells whether the list is non-empty.  For titles at 100,     *)
(* 100 and 250 on three slides the standard is 100 and the one misaligned  *)
(* entry has left 250.                                                     *)
(***************************************************************************)
\* the places <<slide, shape>> of the title shapes of the input document
TitlePlaces ==
    LET prs == Stored(presentation_path)
    IN  {<<n, i>> \in (1..Len(prs)) \X (1..4) :
            i <= Len(prs[n]) /\ prs[n][i].name \in TitleNames}

LeftAt(place) == Stored(presentation_path)[place[1]][place[2]].left

TitlesAt(left) == {place \in TitlePlaces : LeftAt(place) = left}

\* m is a result of analyze_alignment
IsAlignmentResult(m) == IsTool(m) /\ "has_issues" \in DOMAIN m.content

\* the lefts of the titles of the input document, slide by slide, when every
\* slide has one title
TitleLefts ==
    [n \in 1..Len(Stored(presentation_path)) |->
        LeftAt(CHOOSE place \in TitlePlaces : place[1] = n)]

AlignmentReport ==
    \A k \in 1..Len(messages) :
        IsAlignmentResult(messages[k]) =>
            LET report == messages[k].content
            IN  IF TitlePlaces = {}
                THEN report = [has_issues |-> FALSE, message |-> "No titles found"]
                ELSE LET standard == report.standard_left_position
                         off == report.misaligned_titles
                     IN  /\ TitlesAt(standard) # {}
                         /\ \A place \in TitlePlaces :
                               Cardinality(TitlesAt(LeftAt(place)))
                                  <= Cardinality(TitlesAt(standard))
                         /\ Len(off) = Cardinality(TitlePlaces \ TitlesAt(standard))
                         /\ \A j \in 1..Len(off) :
                               /\ off[j].left # standard
                               /\ \E place \in TitlePlaces :
                                     /\ place[1] = off[j].slide
                                     /\ LeftAt(place) = off[j].left
                               /\ \A l \in 1..Len(off) :
                                     (off[l].slide = off[j].slide) => l = j
                         /\ report.has_issues = (Len(off) > 0)
                         /\ (/\ Len(Stored(presentation_path)) = 3
                             /\ \A n \in 1..3 : \E place \in TitlePlaces : place[1] = n
                             /\ TitleLefts = <<100, 100, 250>>)
                               => /\ standard = 100
                                  /\ Len(off) = 1
                                  /\ off[1].left = 250
                                  /\ off[1].slide = 3

\* the report on a document whose titles are at 100, 100 and 250
AlignmentReportWitness ==
    /\ Len(Stored(presentation_path)) = 3
    /\ Cardinality(TitlePlaces) = 3
    /\ TitleLefts = <<100, 100, 250>>
    /\ IsAlignmentResult(messages[Len(messages)])
    /\ messages[Len(messages)].content.has_issues
    /\ messages[Len(messages)].content.standard_left_position = 100
    /\ Len(messages[Len(messages)].content.misaligned_titles) = 1

(***************************************************************************)
(* C18.  Extraction is idempotent: extract_slide_content run a second time *)
(* right after a first on the same document leaves slides_content as the   *)
(* first left it, one entry per slide and none twice, and returns the      *)
(* result the first returned.                                              *)
(***************************************************************************)
\* m is a result of extract_slide_content
IsExtractResult(m) == IsTool(m) /\ "slides" \in DOMAIN m.content

\* the step is an extraction that returns, right after one that returned
SecondExtraction ==
    /\ Executes("extract_slide_content")
    /\ raised' = "none"
    /\ Len(messages) >= 2
    /\ IsExtractResult(messages[Len(messages) - 1])

ExtractionIsIdempotent ==
    [][SecondExtraction
          => /\ slides_content' = slides_content
             /\ Len(slides_content') = Len(Stored(presentation_path))
             /\ \A n \in 1..Len(slides_content') :
                   slides_content'[n].slide_number = n
             /\ messages'[Len(messages')].content
                   = messages[Len(messages) - 1].content
             /\ files' = files]_vars

\* two extractions of a document of several slides have returned in a row
ExtractionIsIdempotentWitness ==
    /\ Len(messages) = 6
    /\ IsExtractResult(messages[4])
    /\ IsExtractResult(messages[6])
    /\ Len(slides_content) >= 2
    /\ Len(slides_content) = Len(Stored(presentation_path))

(***************************************************************************)
(* C19.  When extraction fails part-way, the partial results are           *)
(* discarded: slides_content does not hold the slides extracted before the *)
(* failure (it is empty, or as it was before the call).                    *)
(***************************************************************************)
PartialExtractionDiscarded ==
    [][(Executes("extract_slide_content") /\ raised' # "none")
          => slides_content' \in {<<>>, slides_content}]_vars

(***************************************************************************)
(* C21.  An alignment correction of a matched shape sets the shape's left  *)
(* to corrected_text read as an integer and leaves its text untouched;     *)
(* when corrected_text is no integer the left stays, no error escapes, the *)
(* remaining pending corrections are processed and the document is saved.  *)
(***************************************************************************)
\* the integers the texts of an aligning run denote; the other texts denote
\* none
IntegerOf ==
    (<<"1", "2", "0">> :> 120) @@ (<<"-", "5">> :> (0 - 5)) @@ (<<"+", "7">> :> 7)

\* the left of a shape of slide n with the given name after the alignment
\* corrections of the list, taken in order
RECURSIVE LeftAfter(_, _, _, _)
LeftAfter(left, n, name, corrections) ==
    IF corrections = <<>> THEN left
    ELSE LET c == Head(corrections)
         IN  LeftAfter(IF /\ c.correction_type = "alignment"
                          /\ c.slide_number = n
                          /\ c.shape_name = name
                          /\ c.corrected_text \in DOMAIN IntegerOf
                       THEN IntegerOf[c.corrected_text]
                       ELSE left,
                       n, name, Tail(corrections))

\* the corrections of the list that are not alignment corrections
TextCorrectionsOf(corrections) ==
    LET IsText(c) == c.correction_type # "alignment"
    IN  SelectSeq(corrections, IsText)

\* the step is an apply pass over a list that holds an alignment correction
PassOverAlignment ==
    /\ Executes("apply_all_corrections")
    /\ \E i \in 1..Len(pending_corrections) :
          pending_corrections[i].correction_type = "alignment"

AlignmentSetsLeftOnly ==
    [][PassOverAlignment
          => /\ raised' \in {"none", "OSError"}
             /\ raised' = "none"
                   => /\ files'[output_path].state = "saved"
                      /\ HasStatus(messages'[Len(messages')], "success")
                      /\ \A n \in 1..Len(Stored(presentation_path)) :
                         \A i \in 1..Len(Stored(presentation_path)[n]) :
                            LET before == Stored(presentation_path)[n][i]
                                after == files'[output_path].prs[n][i]
                            IN  /\ after.name = before.name
                                /\ after.left = LeftAfter(before.left, n, before.name,
                                                          pending_corrections)
                                /\ after.paragraphs
                                      = ApplyPending(Stored(presentation_path),
                                           TextCorrectionsOf(pending_corrections)
                                          ).prs[n][i].paragraphs]_vars

\* a pass over an alignment of "Body" to "12.5", skipped, and one to "120"
\* saved both shapes named "Body" at 120 with their text as it was
AlignmentSetsLeftOnlyWitness ==
    /\ files[output_path].state = "saved"
    /\ Len(applied_corrections) = 2
    /\ applied_corrections[1].corrected_text = <<"1", "2", ".", "5">>
    /\ applied_corrections[2].corrected_text = <<"1", "2", "0">>
    /\ applied_corrections[2].shape_name = "Body"
    /\ Stored(output_path)[1][2].left = 120
    /\ Stored(output_path)[1][3].left = 120
    /\ Stored(output_path)[1][2].paragraphs = InputDeck[1][2].paragraphs
    /\ Stored(output_path)[1][1] = InputDeck[1][1]

(***************************************************************************)
(* C22.  When several lefts tie for the highest frequency among the        *)
(* titles, analyze_alignment picks the standard position                   *)
(* deterministically: two calls on the same document report the same       *)
(* standard position and the same misaligned list.                         *)
(***************************************************************************)
\* the lefts that share the highest frequency among the titles
TiedLefts ==
    {LeftAt(place) : place \in
        {place \in TitlePlaces :
            \A other \in TitlePlaces :
                Cardinality(TitlesAt(LeftAt(other)))
                   <= Cardinality(TitlesAt(LeftAt(place)))}}

IterationCountsModelCalls ==
    /\ [](/\ iteration \in 0..MAX_ITERATIONS
          /\ iteration = ModelCalls)
    /\ [][/\ iteration' \in {iteration, iteration + 1}
          /\ (iteration' = iteration + 1)
                <=> /\ Len(messages') = Len(messages) + 1
                    /\ IsAssistant(messages'[Len(messages')])]_vars

\* the budget is used up in a run that also executed a tool call
IterationCountsModelCallsWitness ==
    /\ iteration = MAX_ITERATIONS
    /\ ModelCalls = MAX_ITERATIONS
    /\ Len(messages) > MAX_ITERATIONS + 2

(***************************************************************************)
(* C24.  Corrections are conserved: every correction of a completed        *)
(* add_correction call is in exactly one of the pending and the applied    *)
(* list, so the two lengths add up to the number of completed              *)
(* add_correction calls, and the applied list never shrinks: only          *)
(* apply_all_corrections changes it, by appending.                         *)
(***************************************************************************)
\* what the result of add_correction echoes of a correction
Echo(c) ==
    [slide |-> c.slide_number, shape |-> c.shape_name,
     type |-> c.correction_type, original |-> c.original_text,
     corrected |-> c.corrected_text]

EchoAll(corrections) == [i \in 1..Len(corrections) |-> Echo(corrections[i])]

IsAdded(m) == HasStatus(m, "added")

\* the corrections of the completed add_correction calls, in call order
AddedCorrections ==
    LET added == SelectSeq(messages, IsAdded)
    IN  [i \in 1..Len(added) |-> added[i].content.correction]

\* A Correction carries no identifier, so its entries are told apart by
\* position: the applied list followed by the pending list is, entry by
\* entry, the list of the corrections added.
CorrectionsConserved ==
    /\ [](/\ EchoAll(applied_corrections \o pending_corrections)
                = AddedCorrections
          /\ Len(applied_corrections) + Len(pending_corrections)
                = Len(SelectSeq(messages, IsAdded)))
    /\ [][/\ IsPrefix(applied_corrections, applied_corrections')
          /\ applied_corrections' # applied_corrections
                => Executes("apply_all_corrections")]_vars

\* the same correction was added twice, once before and once after a pass
CorrectionsConservedWitness ==
    /\ Len(applied_corrections) = 1
    /\ Len(pending_corrections) = 1
    /\ applied_corrections[1] = pending_corrections[1]
    /\ Len(AddedCorrections) = 2

(***************************************************************************)
(* C25.  mark_complete only sets is_complete to true: it leaves the        *)
(* pending and the applied corrections, slides_content and the files       *)
(* unchanged, it does not require the pending list to be empty, and once   *)
(* is_complete is true no operation sets it back to false.                 *)
(***************************************************************************)
MarkCompleteOnlySetsFlag ==
    /\ [][Executes("mark_complete")
            => /\ pending_corrections' = pending_corrections
               /\ applied_corrections' = applied_corrections
               /\ slides_content' = slides_content
               /\ files' = files
               /\ raised' = "none"
                     => /\ is_complete'
                        /\ HasStatus(messages'[Len(messages')], "complete")]_vars
    /\ [][is_complete => is_complete']_vars

\* mark_complete has just returned although a correction is still pending
MarkCompleteOnlySetsFlagWitness ==
    /\ is_complete
    /\ pending_corrections # <<>>
    /\ HasStatus(messages[Len(messages)], "complete")
    /\ raised = "none"

(***************************************************************************)
(* C26.  Completion is checked only after all tool calls of the iteration  *)
(* have run: the tool calls that follow mark_complete in the same response *)
(* are still executed, their effects take place and their results are      *)
(* appended to the transcript, before the loop exits.                      *)
(***************************************************************************)
\* call k of the response at message i comes after a mark_complete of the
\* same response
FollowsMarkComplete(i, k) ==
    /\ IsAssistant(messages[i])
    /\ k \in 2..Len(messages[i].tool_calls)
    /\ \E j \in 1..(k - 1) : messages[i].tool_calls[j].name = "mark_complete"

\* the effect of the last call of a response, seen once the for loop is over
EffectTookPlace(call, result) ==
    /\ call.name = "add_correction"
          => /\ HasStatus(result, "added")
             /\ pending_corrections # <<>>
             /\ pending_corrections[Len(pending_corrections)]
                   = call.arguments.correction
    /\ call.name = "apply_all_corrections"
          => /\ IsApplyResult(result)
             /\ pending_corrections = <<>>
    /\ call.name = "mark_complete" => HasStatus(result, "complete")

CompletionCheckedAfterCalls ==
    /\ [](pc \in {"loop", "done"}
            => \A i \in 3..Len(messages) :
                  \A k \in 1..Len(messages) :
                     FollowsMarkComplete(i, k)
                        => /\ i + k <= Len(messages)
                           /\ IsTool(messages[i + k])
                           /\ messages[i + k].tool_call_id
                                 = messages[i].tool_calls[k].id
                           /\ k = Len(messages[i].tool_calls)
                                 => EffectTookPlace(messages[i].tool_calls[k],
                                                    messages[i + k]))
    /\ [][(pc = "tools" /\ is_complete) => pc' # "done"]_vars

\* a returned run whose last response asked for mark_complete and then for
\* a correction, which is pending
CompletionCheckedAfterCallsWitness ==
    /\ pc = "done"
    /\ raised = "none"
    /\ Len(messages) >= 5
    /\ FollowsMarkComplete(Len(messages) - 2, 2)
    /\ messages[Len(messages) - 2].tool_calls[2].name = "add_correction"
    /\ HasStatus(messages[Len(messages) - 1], "complete")
    /\ HasStatus(messages[Len(messages)], "added")
    /\ Len(pending_corrections) = 1

(***************************************************************************)
(* C27.  A tool call naming a tool that is not in the registry invokes no  *)
(* handler and changes no state other than the transcript: an error        *)
(* result "Tool not found" is appended for its call id, and the loop       *)
(* continues with the remaining tool calls and iterations.                 *)
(***************************************************************************)
UnknownToolIsReported ==
    [][(pc = "tools" /\ Head(tool_calls).name \notin TOOLS)
          => /\ messages' = Append(messages,
                   ToolMessage(Head(tool_calls),
                               [error |-> "Tool not found",
                                tool |-> Head(tool_calls).name]))
             /\ UNCHANGED << slides_content, pending_corrections,
                             applied_corrections, is_complete, files,
                             iteration >>
             /\ raised' = "none"
             /\ tool_calls' = Tail(tool_calls)
             /\ pc' = IF Tail(tool_calls) = <<>> THEN "loop" ELSE "tools"]_vars

=============================================================================
